---- MODULE Spec2Model ----
(***************************************************************************)
(* A model of fairlearn's FairRepresentationLearner                        *)
(* (src/fairlearn/preprocessing/_fair_representation_learner.py).          *)
(*                                                                         *)
(* The estimator instance is the variable `self`: its attribute            *)
(* dictionary, a function from attribute names to values.  An attribute    *)
(* that was never assigned is absent from DOMAIN self; an attribute        *)
(* assigned Python's None holds None (the empty tuple) and any other       *)
(* nullable attribute holds Some(v) (a one-element tuple).                 *)
(*                                                                         *)
(* The numerical kernels the module calls but does not define (scipy's     *)
(* minimize, cdist and softmax, sklearn's log_loss and LogisticRegression, *)
(* numpy's random draws) are inputs of the actions: every action draws     *)
(* their outcome from a bounded set of outcomes their contract allows.     *)
(* Probabilities and memberships are fixed-point numbers in units of       *)
(* 1/Scale; products of two of them are in units of 1/(Scale*Scale).       *)
(***************************************************************************)
EXTENDS Integers, Sequences, FiniteSets, TLC

VARIABLES
    self,   \* the estimator's attribute dictionary (vars(estimator))
    ret,    \* what the most recent call did: its arguments, result or exception
    hist    \* history: the outcome of the most recent fit calls

vars == <<self, ret, hist>>

-----------------------------------------------------------------------------
(* Bounds of the model.                                                    *)

MaxPrototypes == 2      \* n_prototypes ranges over 1..MaxPrototypes
MaxFeatures == 2        \* n_features ranges over 1..MaxFeatures
MaxGroups == 2          \* a sensitive feature has 1..MaxGroups groups
Scale == 2              \* fixed-point unit: a probability p is p/Scale

\* Number of samples of a training set: enough for three distinct labels.
NSamples == 3

\* Label values a caller may pass as y (none of them an internal code 0/1).
Labels == {5, 7, 9}

\* Feature values of the matrices handed to transform/predict.
FeatureValues == {0, 1}

-----------------------------------------------------------------------------
(* Python values.                                                          *)

None == << >>
Some(v) == <<v>>

HasAttr(s, a) == a \in DOMAIN s

\* Attribute assignment  s.a = v
SetAttr(s, a, v) == IF a \in DOMAIN s THEN [s EXCEPT ![a] = v] ELSE (a :> v) @@ s

Min2(a, b) == IF a < b THEN a ELSE b
Max2(a, b) == IF a > b THEN a ELSE b

RECURSIVE SumSeq(_)
SumSeq(q) == IF q = << >> THEN 0 ELSE Head(q) + SumSeq(Tail(q))

RECURSIVE Concat(_)
\* np.concatenate / ndarray.flatten of a sequence of rows
Concat(qs) == IF qs = << >> THEN << >> ELSE Head(qs) \o Concat(Tail(qs))

\* Python's index normalisation of a slice bound against a length n.
SliceBound(i, n) == IF i < 0 THEN Max2(i + n, 0) ELSE Min2(i, n)

\* x[lo:hi], x[lo:] and x[:hi] with Python's semantics (0-based, negative
\* bounds counted from the end).
PySlice(x, lo, hi) ==
    LET a == SliceBound(lo, Len(x))
        b == SliceBound(hi, Len(x))
    IN  IF b <= a THEN << >> ELSE SubSeq(x, a + 1, b)

PySliceFrom(x, lo) == PySlice(x, lo, Len(x))
PySliceTo(x, hi) == PySlice(x, 0, hi)

\* ndarray.reshape((rows, cols)) of a flat vector, row-major.
Reshape(x, rows, cols) ==
    [i \in 1..rows |-> [j \in 1..cols |-> x[(i - 1) * cols + j]]]

\* M @ V for a matrix M (n x k) and a matrix V (k x d).
MatMul(M, V) ==
    [i \in 1..Len(M) |->
        [j \in 1..Len(V[1]) |-> SumSeq([p \in 1..Len(V) |-> M[i][p] * V[p][j]])]]

\* M @ w for a matrix M (n x k) and a vector w (k).
MatVec(M, w) ==
    [i \in 1..Len(M) |-> SumSeq([p \in 1..Len(w) |-> M[i][p] * w[p]])]

RECURSIVE SortedSeq(_)
\* The elements of a finite set of integers in increasing order.
SortedSeq(S) ==
    IF S = {} THEN << >>
    ELSE LET m == CHOOSE a \in S : \A b \in S : a <= b
         IN  <<m>> \o SortedSeq(S \ {m})

Range(q) == {q[i] : i \in 1..Len(q)}

\* np.unique(y): the sorted distinct values.
NpUnique(y) == SortedSeq(Range(y))

RECURSIVE UniqueInOrder(_)
\* pd.Series.unique(): the distinct values in order of first appearance.
UniqueInOrder(q) ==
    IF q = << >> THEN << >>
    ELSE LET r == UniqueInOrder(SubSeq(q, 1, Len(q) - 1))
             l == q[Len(q)]
         IN  IF l \in Range(r) THEN r ELSE Append(r, l)

-----------------------------------------------------------------------------
(* Inputs of the calls.                                                    *)

\* The enumerated set of the `optimizer` parameter (lines 205-207).
Optimizers ==
    {"L-BFGS-B", "Nelder-Mead", "Powell", "SLSQP", "TNC", "trust-constr",
     "COBYLA", "COBYQA"}

\* A training matrix X is known by its number of columns and by whether all
\* its entries are finite; its entries reach the model only through the
\* numerical kernels, whose outcomes are drawn separately.
FitXs == [n_features : 1..MaxFeatures, finite : BOOLEAN]

\* The label vectors y: one per non-empty set of labels that fits in NSamples
\* samples, holding the labels of the set in decreasing order and then the
\* smallest one repeated (np.unique and LabelEncoder sort the labels).
LabelVector(S) ==
    LET q == SortedSeq(S)
    IN  [i \in 1..NSamples |-> IF i <= Len(q) THEN q[Len(q) + 1 - i] ELSE q[1]]
LabelSets == {{5}, {5, 7}, {7, 9}, {5, 7, 9}}
FitYs == {LabelVector(S) : S \in LabelSets}

\* A sensitive-feature vector with g groups: sample i belongs to group
\* (i - 1) mod g.  None stands for an omitted argument.
GroupVector(g) == [i \in 1..NSamples |-> (i - 1) % g]
FitSensitiveFeatures ==
    {None} \cup {GroupVector(g) : g \in 1..Min2(MaxGroups, NSamples)}

\* The matrices handed to transform, predict_proba and predict: every matrix
\* of one row of 1..MaxFeatures feature values, and for each width the
\* two-row matrix of a row of zeros and a row of ones.
RowsOf(d) == [1..d -> FeatureValues]
QueryXs ==
    UNION {{<<r>> : r \in RowsOf(d)} \cup {<<[j \in 1..d |-> 0], [j \in 1..d |-> 1]>>} :
           d \in 1..MaxFeatures}

\* The probability distributions over k prototypes, in units of 1/Scale.
Distributions(k) == {m \in [1..k -> 0..Scale] : SumSeq(m) = Scale}

\* What scipy's cdist and softmax may return for n samples and k prototypes:
\* a row-stochastic n x k matrix.
Memberships(n, k) == [1..n -> Distributions(k)]

\* What the fallback classifier's predict_proba may return for n samples:
\* the positive-class probability of each, in units of 1/(Scale*Scale).
Probabilities(n) == [1..n -> 0..(Scale * Scale)]

-----------------------------------------------------------------------------
(* sklearn's estimator protocol.                                           *)

\* The attributes whose name ends with "_" (and does not start with "__"):
\* check_is_fitted looks for any of them in vars(estimator).
TrailingUnderscore ==
    {"coef_", "n_iter_", "n_features_in_", "classes_", "_prototypes_", "_alpha_"}

\* check_is_fitted(self) passes.
IsFitted(s) == (DOMAIN s) \cap TrailingUnderscore # {}

\* validate_data(self, X, y=y, allow_nd=True, ensure_2d=False,
\* ensure_all_finite=True) of fit (line 602): a matrix with a non-finite entry
\* is rejected.  With ensure_2d=False the call does not record
\* n_features_in_; fit does (line 282).
ValidateDataReset(s, X) == IF ~X.finite THEN "ValueError" ELSE "none"

\* validate_data(self, X, reset=False): the number of columns of X is checked
\* against n_features_in_ when that attribute exists.
ValidateDataNoReset(s, X) ==
    IF HasAttr(s, "n_features_in_") /\ Len(X[1]) # s["n_features_in_"]
    THEN "ValueError"
    ELSE "none"

\* sklearn.utils.multiclass.type_of_target for a vector of integer labels.
TypeOfTarget(y) == IF Cardinality(Range(y)) > 2 THEN "multiclass" ELSE "binary"

\* LabelEncoder().fit(y): the encoder is its sorted classes.
LabelEncoderFit(y) == NpUnique(y)

\* LabelEncoder.transform(y): the index of each label among the classes.
LabelEncoderTransform(enc, y) ==
    [i \in 1..Len(y) |-> (CHOOSE c \in 1..Len(enc) : enc[c] = y[i]) - 1]

\* A boolean used as an index is the integer 0 or 1.
BoolIndex(b) == IF b THEN 1 ELSE 0

\* LabelEncoder.inverse_transform(codes) for a boolean vector: codes outside
\* 0..len(classes)-1 are rejected, the others index the classes.
LabelEncoderInverse(enc, codes) ==
    IF \E i \in 1..Len(codes) : BoolIndex(codes[i]) >= Len(enc)
    THEN [raised |-> "ValueError", value |-> << >>]
    ELSE [raised |-> "none",
          value |-> [i \in 1..Len(codes) |-> enc[BoolIndex(codes[i]) + 1]]]

-----------------------------------------------------------------------------
(* FairRepresentationLearner._validate_X_y                                 *)

ValidateXyMissingValidateData(s, X, y) ==
    IF TypeOfTarget(y) # "binary"
    THEN [raised |-> "ValueError", s |-> s, y |-> << >>]
    ELSE [raised |-> "none",
          s |-> SetAttr(SetAttr(s, "classes_", NpUnique(y)),
                        "_label_encoder", LabelEncoderFit(y)),
          y |-> LabelEncoderTransform(LabelEncoderFit(y), y)]

ValidateXyKeepsEncoder(s, X, y) ==
    IF ValidateDataReset(s, X) # "none"
    THEN [raised |-> ValidateDataReset(s, X), s |-> s, y |-> << >>]
    ELSE IF TypeOfTarget(y) # "binary"
    THEN [raised |-> "ValueError", s |-> s, y |-> << >>]
    ELSE [raised |-> "none",
          s |-> IF HasAttr(s, "_label_encoder")
                THEN SetAttr(s, "classes_", NpUnique(y))
                ELSE SetAttr(SetAttr(s, "classes_", NpUnique(y)),
                             "_label_encoder", LabelEncoderFit(y)),
          y |-> LabelEncoderTransform(LabelEncoderFit(y), y)]

ValidateXy(s, X, y) ==
    IF ValidateDataReset(s, X) # "none"
    THEN [raised |-> ValidateDataReset(s, X), s |-> s, y |-> << >>]
    ELSE IF TypeOfTarget(y) # "binary"
    THEN [raised |-> "ValueError", s |-> s, y |-> << >>]
    ELSE [raised |-> "none",
          s |-> SetAttr(SetAttr(s, "classes_", NpUnique(y)),
                        "_label_encoder", LabelEncoderFit(y)),
          y |-> LabelEncoderTransform(LabelEncoderFit(y), y)]

\* fairlearn.utils._input_validation._validate_and_reformat_input with
\* expect_sensitive_features=False and enforce_binary_labels=True: the
\* sensitive features must have one entry per sample and the labels, already
\* encoded, must be among 0 and 1.
ValidateAndReformatInput(y, sensitive_features) ==
    IF sensitive_features # None /\ Len(sensitive_features) # Len(y)
    THEN [raised |-> "ValueError", sensitive_features |-> None]
    ELSE IF ~(Range(y) \subseteq {0, 1})
    THEN [raised |-> "ValueError", sensitive_features |-> None]
    ELSE [raised |-> "none", sensitive_features |-> sensitive_features]

-----------------------------------------------------------------------------
(* The flat optimisation vector (lines 319-383 and 398-402).               *)

\* self._prototype_vectors_size (line 328)
PrototypeVectorsSize(k, d) == k * d

\* self._optimizer_size (lines 330-334)
OptimizerSize(k, d) == k * d + k + d

\* random_state.rand: the i-th number of the stream a draw starts, in [0, 1).
Rand(draw, i) == (draw + i) % Scale

\* V0 = random_state.rand(n_prototypes, prototype_dim) (line 368)
InitialPrototypes(draw, k, d) ==
    [i \in 1..k |-> [j \in 1..d |-> Rand(draw, (i - 1) * d + j)]]

\* w0 = random_state.rand(n_prototypes) (line 371), drawn after V0
InitialPredictions(draw, k, d) == [i \in 1..k |-> Rand(draw, k * d + i)]

\* alpha0 = np.ones(prototype_dim) (line 374)
InitialAlpha(d) == [j \in 1..d |-> Scale]

\* x0 = np.concatenate([V0.flatten(), w0, alpha0]) (line 376)
InitialPoint(V0, w0, alpha0) == Concat(V0) \o w0 \o alpha0

\* bounds (lines 378-383): one entry per coordinate
Bounds(k, d) ==
    [i \in 1..PrototypeVectorsSize(k, d) |-> "unbounded"]
    \o [i \in 1..k |-> "zero_to_one"]
    \o [i \in 1..d |-> "non_negative"]

\* The slices of the objective (lines 339, 340, 357).
ObjectiveV(x, k, d) == Reshape(PySliceTo(x, PrototypeVectorsSize(k, d)), k, d)
ObjectiveAlpha(x, k, d) == PySliceFrom(x, -d)
ObjectiveW(x, k, d) == PySlice(x, PrototypeVectorsSize(k, d), -d)

\* The slices of the minimizer's result (lines 398-402).
ResultCoefToTheEnd(x, k, d) == PySliceFrom(x, PrototypeVectorsSize(k, d))
ResultCoef(x, k, d) == PySlice(x, PrototypeVectorsSize(k, d), -d)
ResultPrototypes(x, k, d) == Reshape(PySliceTo(x, PrototypeVectorsSize(k, d)), k, d)
ResultAlpha(x, k, d) == PySliceFrom(x, -d)

-----------------------------------------------------------------------------
(* The outcomes of the numerical collaborators.                            *)

\* The result picks: which of the vectors a collaborator returns.
Picks == {0, 1}

\* scipy.optimize.minimize either throws, or returns a result with a success
\* flag, a vector x and an iteration count.
MinimizeRaised == [raised |-> TRUE, success |-> FALSE, pick |-> 0]
MinimizeOutcomes ==
    {MinimizeRaised} \cup [raised : {FALSE}, success : BOOLEAN, pick : Picks]

\* result.x: a vector of the length of x0 within the bounds (prototypes
\* unbounded, predictions in [0, 1], dimension weights non-negative).
ResultX(pick, k, d) ==
    [i \in 1..OptimizerSize(k, d) |->
        IF i <= k * d THEN pick + i
        ELSE IF i <= k * d + k THEN (pick + i) % (Scale + 1)
        ELSE pick + i - (k * d + k)]

\* result.nit
ResultNit(pick) == pick + 1

\* log_loss(y, y_hat) throws when y holds a single label, and so does the
\* minimizer that evaluates the objective.
MinimizeOutcomesFor(y) ==
    IF Cardinality(Range(y)) < 2 THEN {MinimizeRaised} ELSE MinimizeOutcomes

\* LogisticRegression(...).fit(X, y) throws when y holds a single class and
\* otherwise returns a classifier for n_features columns.
TrainerRaised == [raised |-> TRUE, pick |-> 0]
TrainerOutcomesFor(y) ==
    IF Cardinality(Range(y)) < 2
    THEN {TrainerRaised}
    ELSE {[raised |-> FALSE, pick |-> 0]}

FittedClassifier(pick, d) ==
    [n_features_in_ |-> d,
     coef_ |-> <<[j \in 1..d |-> pick + j]>>,
     n_iter_ |-> <<pick + 1>>]

\* A call of a collaborator, as recorded in the trace of a fit call.
MinimizeCall(method, x0, bounds, outcome) ==
    [fn |-> "minimize", method |-> method, n |-> Len(x0),
     outcome |-> IF outcome.raised THEN "raised"
                 ELSE IF outcome.success THEN "success" ELSE "failure"]
TrainerCall(outcome) ==
    [fn |-> "LogisticRegression.fit", method |-> "lbfgs", n |-> 0,
     outcome |-> IF outcome.raised THEN "raised" ELSE "success"]

-----------------------------------------------------------------------------
(* FairRepresentationLearner._optimize_with_sensitive_features             *)

\* The method handed to minimize (line 391).
MinimizeMethod(s) == "L-BFGS-B"

\* Whether the outcome of minimize makes the method raise (lines 385-396).
MinimizeFailed(outcome) == outcome.raised

\* self._fall_back_classifier = None (line 405)
ClearFallbackClassifierSkipped(s) == s
ClearFallbackClassifier(s) == SetAttr(s, "_fall_back_classifier", None)

OptimizeWithSensitiveFeatures(s, X, y, sensitive_features, draw, outcome) ==
    LET s1 == SetAttr(s, "_groups", UniqueInOrder(sensitive_features))
        k == s["n_prototypes"]
        d == X.n_features
        V0 == InitialPrototypes(draw, k, d)
        w0 == InitialPredictions(draw, k, d)
        alpha0 == InitialAlpha(d)
        x0 == InitialPoint(V0, w0, alpha0)
        call == MinimizeCall(MinimizeMethod(s1), x0, Bounds(k, d), outcome)
    IN  IF MinimizeFailed(outcome)
        THEN [raised |-> "RuntimeError", s |-> s1, calls |-> <<call>>]
        ELSE LET x == ResultX(outcome.pick, k, d)
                 s2 == SetAttr(s1, "coef_", ResultCoef(x, k, d))
                 s3 == SetAttr(s2, "_prototypes_", Some(ResultPrototypes(x, k, d)))
                 s4 == SetAttr(s3, "_alpha_", Some(ResultAlpha(x, k, d)))
                 s5 == SetAttr(s4, "n_iter_", ResultNit(outcome.pick))
                 s6 == ClearFallbackClassifier(s5)
             IN  [raised |-> "none", s |-> s6, calls |-> <<call>>]

-----------------------------------------------------------------------------
(* FairRepresentationLearner._optimize_without_sensitive_features          *)

\* self._prototypes_ = None; self._alpha_ = None (lines 441-442)
ClearRepresentationSkipped(s) == s
ClearRepresentation(s) == SetAttr(SetAttr(s, "_prototypes_", None), "_alpha_", None)

OptimizeWithoutSensitiveFeatures(s, X, y, outcome) ==
    LET s1 == SetAttr(s, "_groups", << >>)
        call == TrainerCall(outcome)
    IN  IF outcome.raised
        THEN [raised |-> "ValueError", s |-> s1, calls |-> <<call>>]
        ELSE LET clf == FittedClassifier(outcome.pick, X.n_features)
                 s2 == SetAttr(s1, "_fall_back_classifier", Some(clf))
                 s3 == SetAttr(s2, "coef_", clf.coef_)
                 s5 == ClearRepresentation(s3)
                 s6 == SetAttr(s5, "n_iter_", clf.n_iter_)
             IN  [raised |-> "none", s |-> s6, calls |-> <<call>>]

-----------------------------------------------------------------------------
(* FairRepresentationLearner.fit                                           *)

\* The outcomes of the collaborators a fit call with these arguments reaches:
\* the random draw and the minimizer with sensitive features, the trainer
\* without; one outcome stands for all where validation raises before.
NoOutcome == [draw |-> 0, min |-> MinimizeRaised, clf |-> TrainerRaised]
FitOutcomes(X, y, sensitive_features) ==
    IF ~X.finite \/ TypeOfTarget(y) # "binary"
    THEN {NoOutcome}
    ELSE IF sensitive_features = None
    THEN {[draw |-> 0, min |-> MinimizeRaised, clf |-> c] : c \in TrainerOutcomesFor(y)}
    ELSE {[draw |-> r, min |-> m, clf |-> TrainerRaised] :
             r \in 0..(Scale - 1), m \in MinimizeOutcomesFor(y)}

\* Lines 272-290, once _validate_X_y (v) has returned.
FitValidated(v, X, sensitive_features, outcome) ==
    CHOOSE result \in
        {IF r.raised # "none"
         THEN [raised |-> r.raised, s |-> v.s, calls |-> << >>]
         ELSE IF r.sensitive_features = None
         THEN OptimizeWithoutSensitiveFeatures(
                  SetAttr(v.s, "n_features_in_", X.n_features), X, v.y, outcome.clf)
         ELSE OptimizeWithSensitiveFeatures(
                  SetAttr(v.s, "n_features_in_", X.n_features), X, v.y,
                  r.sensitive_features, outcome.draw, outcome.min) :
            r \in {ValidateAndReformatInput(v.y, sensitive_features)}} : TRUE

FitResult(s, X, y, sensitive_features, outcome) ==
    CHOOSE result \in
        {IF v.raised # "none"
         THEN [raised |-> v.raised, s |-> v.s, calls |-> << >>]
         ELSE FitValidated(v, X, sensitive_features, outcome) :
            v \in {ValidateXy(s, X, y)}} : TRUE

-----------------------------------------------------------------------------
(* The read operations.  Each returns [raised, value, calls]: the exception *)
(* it ends with ("none" when it returns), the value it returns and the      *)
(* calls it made whose result the caller does not see otherwise.            *)

Raise(e) == [raised |-> e, value |-> None, calls |-> << >>]
Return(v) == [raised |-> "none", value |-> v, calls |-> << >>]

\* FairRepresentationLearner._get_latent_mapping (lines 554-579): cdist
\* rejects operands whose numbers of columns differ; M is what cdist and
\* softmax then return.
GetLatentMapping(X, prototypes, dimension_weights, M) ==
    IF Len(X[1]) # Len(prototypes[1]) \/ Len(dimension_weights) # Len(X[1])
    THEN Raise("ValueError")
    ELSE Return(M)

\* The property prototypes_ (lines 532-541)
PrototypesProperty(s) ==
    IF ~IsFitted(s) THEN Raise("NotFittedError")
    ELSE IF ~HasAttr(s, "_prototypes_") THEN Raise("AttributeError")
    ELSE IF s["_prototypes_"] = None THEN Raise("AttributeError")
    ELSE Return(s["_prototypes_"][1])

\* The property alpha_ (lines 543-552)
AlphaProperty(s) ==
    IF ~IsFitted(s) THEN Raise("NotFittedError")
    ELSE IF ~HasAttr(s, "_alpha_") THEN Raise("AttributeError")
    ELSE IF s["_alpha_"] = None THEN Raise("AttributeError")
    ELSE Return(s["_alpha_"][1])

\* if self._fall_back_classifier is not None (line 472)
HasFallbackInverted(s) == s["_fall_back_classifier"] = None
HasFallback(s) == s["_fall_back_classifier"] # None

\* FairRepresentationLearner.transform (lines 468-476)
TransformResult(s, X, M) ==
    IF ~IsFitted(s) THEN Raise("NotFittedError")
    ELSE IF ValidateDataNoReset(s, X) # "none" THEN Raise("ValueError")
    ELSE IF ~HasAttr(s, "_fall_back_classifier") THEN Raise("AttributeError")
    ELSE IF HasFallback(s) THEN Return(X)
    ELSE IF ~HasAttr(s, "_prototypes_") \/ ~HasAttr(s, "_alpha_")
    THEN Raise("AttributeError")
    ELSE IF s["_prototypes_"] = None \/ s["_alpha_"] = None
    THEN Raise("TypeError")
    ELSE LET m == GetLatentMapping(X, s["_prototypes_"][1], s["_alpha_"][1], M)
         IN  IF m.raised # "none" THEN m
             ELSE Return(MatMul(m.value, s["_prototypes_"][1]))

\* LogisticRegression.predict_proba of the fallback classifier: P holds the
\* positive-class probability of each sample.
ClassifierPredictProba(clf, X, P) ==
    IF Len(X[1]) # clf.n_features_in_
    THEN Raise("ValueError")
    ELSE Return([i \in 1..Len(X) |-> <<Scale * Scale - P[i], P[i]>>])

\* FairRepresentationLearner.predict_proba (lines 499-508)
PredictProbaResult(s, X, M, P) ==
    IF ~IsFitted(s) THEN Raise("NotFittedError")
    ELSE IF ValidateDataNoReset(s, X) # "none" THEN Raise("ValueError")
    ELSE IF ~HasAttr(s, "_fall_back_classifier") THEN Raise("AttributeError")
    ELSE IF s["_fall_back_classifier"] # None
    THEN ClassifierPredictProba(s["_fall_back_classifier"][1], X, P)
    ELSE IF ~HasAttr(s, "_prototypes_") THEN Raise("AttributeError")
    ELSE LET a == AlphaProperty(s)
         IN  IF a.raised # "none" THEN a
             ELSE IF s["_prototypes_"] = None THEN Raise("TypeError")
             ELSE
             LET m == GetLatentMapping(X, s["_prototypes_"][1], a.value, M)
             IN  IF m.raised # "none" THEN m
                 ELSE LET positive_proba == MatVec(m.value, s["coef_"])
                      IN  Return([i \in 1..Len(X) |->
                                     <<Scale * Scale - positive_proba[i],
                                       positive_proba[i]>>])

\* predict_proba(X)[:, 1] > 0.5 (line 528), one half being Scale*Scale/2.
BinaryPredictionsAtLeastHalf(proba) ==
    [i \in 1..Len(proba) |-> 2 * proba[i][2] >= Scale * Scale]
BinaryPredictions(proba) == [i \in 1..Len(proba) |-> 2 * proba[i][2] > Scale * Scale]

\* FairRepresentationLearner.predict (lines 524-530)
PredictResult(s, X, M, P) ==
    IF ~IsFitted(s) THEN Raise("NotFittedError")
    ELSE IF ValidateDataNoReset(s, X) # "none" THEN Raise("ValueError")
    ELSE LET p == PredictProbaResult(s, X, M, P)
         IN  IF p.raised # "none" THEN p
             ELSE IF ~HasAttr(s, "_label_encoder") THEN Raise("AttributeError")
             ELSE
             LET l == LabelEncoderInverse(s["_label_encoder"],
                                          BinaryPredictions(p.value))
             IN  [raised |-> l.raised, value |-> l.value,
                  calls |-> <<[fn |-> "predict_proba", value |-> p.value]>>]

-----------------------------------------------------------------------------
(* Exact arithmetic for the objective: a real number is a fraction         *)
(* <<numerator, denominator>> in lowest terms with a positive denominator, *)
(* and <<0, 0>> is IEEE's NaN (0.0 / 0), which every operation propagates. *)

NaN == <<0, 0>>
IsNaN(a) == a[2] = 0

Abs(n) == IF n < 0 THEN -n ELSE n

RECURSIVE Gcd(_, _)
Gcd(a, b) == IF b = 0 THEN a ELSE Gcd(b, a % b)

Normalise(n, d) ==
    IF d = 0 THEN NaN
    ELSE <<(IF d < 0 THEN -1 ELSE 1) * (n \div Gcd(Abs(n), Abs(d))),
           (IF d < 0 THEN -1 ELSE 1) * (d \div Gcd(Abs(n), Abs(d)))>>

\* (CHOOSE r \in {e(p) : p \in {v}} : TRUE is e(v), v being computed once.)
Rat(n, d) == CHOOSE r \in {Normalise(p[1], p[2]) : p \in {<<n, d>>}} : TRUE

\* The real number a fixed-point value stands for.
Real(v) == Rat(v, Scale)

RAdd(a, b) ==
    CHOOSE r \in {IF IsNaN(p[1]) \/ IsNaN(p[2]) THEN NaN
                  ELSE Normalise(p[1][1] * p[2][2] + p[2][1] * p[1][2],
                                 p[1][2] * p[2][2]) : p \in {<<a, b>>}} : TRUE
RSub(a, b) ==
    CHOOSE r \in {IF IsNaN(p[1]) \/ IsNaN(p[2]) THEN NaN
                  ELSE Normalise(p[1][1] * p[2][2] - p[2][1] * p[1][2],
                                 p[1][2] * p[2][2]) : p \in {<<a, b>>}} : TRUE
RMul(a, b) ==
    CHOOSE r \in {IF IsNaN(p[1]) \/ IsNaN(p[2]) THEN NaN
                  ELSE Normalise(p[1][1] * p[2][1], p[1][2] * p[2][2]) :
                      p \in {<<a, b>>}} : TRUE
RAbs(a) == CHOOSE r \in {<<Abs(p[1]), p[2]>> : p \in {a}} : TRUE

RECURSIVE RSum(_)
RSum(q) == IF q = << >> THEN <<0, 1>> ELSE RAdd(Head(q), RSum(Tail(q)))

\* np.mean of a flat array: the sum divided by the number of elements, which
\* is 0.0 / 0 = NaN for an empty array.
RDivInt(a, n) ==
    CHOOSE r \in {IF IsNaN(p) THEN NaN ELSE Normalise(p[1], p[2] * n) : p \in {a}} : TRUE
NpMean(q) == RDivInt(RSum(q), Len(q))

\* np.triu_indices(n, k=1): the pairs (i, j) with i < j, row by row.
TriuIndices(n) ==
    Concat([i \in 1..n |-> [c \in 1..(n - i) |-> <<i, i + c>>]])

\* The indices of the samples of a group, in order.
GroupRows(sensitive_features, group) ==
    SortedSeq({i \in 1..Len(sensitive_features) : sensitive_features[i] = group})

-----------------------------------------------------------------------------
(* The objective of _optimize_with_sensitive_features (lines 336-365).     *)
(* M is what cdist and softmax return for (X, V, alpha) and                *)
(* cross_entropy what log_loss returns for (y, M @ w).                     *)

\* (X - X_hat)[i][j] ** 2 for X_hat = M @ V (lines 342-343)
SquaredError(x_ij, x_hat_ij) ==
    CHOOSE r \in {RMul(diff, diff) : diff \in {RSub(x_ij, x_hat_ij)}} : TRUE

\* reconstruction_error (lines 342-343)
ReconstructionError(X, M, V) ==
    NpMean([i \in 1..Len(X) |->
        RSum([j \in 1..Len(X[1]) |->
            SquaredError(Real(X[i][j]),
                         RSum([p \in 1..Len(V) |-> RMul(Real(M[i][p]), Real(V[p][j]))]))])])

\* np.mean(M[sensitive_features == group], axis=0)[p] (line 348)
GroupMean(M, rows, p) == NpMean([r \in 1..Len(rows) |-> Real(M[rows[r]][p])])

\* M_gk (lines 347-349): the mean membership of each group
GroupMeans(M, sensitive_features, groups, k) ==
    [g \in 1..Len(groups) |->
        [p \in 1..k |-> GroupMean(M, GroupRows(sensitive_features, groups[g]), p)]]

\* np.mean(np.abs(M_gk[rows, None] - M_gk[cols, None])) (lines 352-354)
MeanAbsoluteDifference(M_gk, group_combinations, k) ==
    NpMean(Concat([c \in 1..Len(group_combinations) |->
              [p \in 1..k |->
                  RAbs(RSub(M_gk[group_combinations[c][1]][p],
                            M_gk[group_combinations[c][2]][p]))]]))

\* fairness_error (lines 345-354)
FairnessError(M, sensitive_features, groups, k) ==
    MeanAbsoluteDifference(GroupMeans(M, sensitive_features, groups, k),
                           TriuIndices(Len(groups)), k)

\* log_loss(y, y_hat) (line 359): it rejects a y with a single label.
ClassificationError(y, cross_entropy) ==
    IF Cardinality(Range(y)) < 2
    THEN [raised |-> "ValueError", value |-> NaN]
    ELSE [raised |-> "none", value |-> Real(cross_entropy)]

\* The weighted sum the objective returns (lines 361-365).
WeightedSum(s, reconstruction_error, classification_error, fairness_error) ==
    RAdd(RAdd(RMul(Rat(s["Ax"], 1), reconstruction_error),
              RMul(Rat(s["Ay"], 1), classification_error)),
         RMul(Rat(s["Az"], 1), fairness_error))

\* The objective once x is unpacked and the kernels have answered.
ObjectiveTerms(s, parts, m, c, reconstruction_error, fairness_error) ==
    IF m.raised # "none" THEN [parts EXCEPT !.raised = m.raised]
    ELSE IF c.raised # "none" THEN [parts EXCEPT !.raised = c.raised]
    ELSE [parts EXCEPT
             !.reconstruction_error = reconstruction_error,
             !.fairness_error = fairness_error,
             !.classification_error = c.value,
             !.value = WeightedSum(s, reconstruction_error, c.value, fairness_error)]

ObjectiveUnpacked(s, X, y, sensitive_features, groups, M, cross_entropy, V, w, alpha) ==
    ObjectiveTerms(
        s,
        [raised |-> "none", value |-> NaN, V |-> V, w |-> w, alpha |-> alpha,
         reconstruction_error |-> NaN, fairness_error |-> NaN,
         classification_error |-> NaN],
        GetLatentMapping(X, V, alpha, M),
        ClassificationError(y, cross_entropy),
        ReconstructionError(X, M, V),
        FairnessError(M, sensitive_features, groups, s["n_prototypes"]))

Objective(s, x, X, y, sensitive_features, groups, M, cross_entropy) ==
    IF Len(x) # OptimizerSize(s["n_prototypes"], Len(X[1]))
    THEN [raised |-> "AssertionError", value |-> NaN, V |-> << >>, w |-> << >>,
          alpha |-> << >>, reconstruction_error |-> NaN, fairness_error |-> NaN,
          classification_error |-> NaN]
    ELSE ObjectiveUnpacked(s, X, y, sensitive_features, groups, M, cross_entropy,
                           ObjectiveV(x, s["n_prototypes"], Len(X[1])),
                           ObjectiveW(x, s["n_prototypes"], Len(X[1])),
                           ObjectiveAlpha(x, s["n_prototypes"], Len(X[1])))

-----------------------------------------------------------------------------
(* The state machine: one instance, any sequence of calls.                 *)

\* The defaults of __init__ (lines 229-238).
DefaultPrototypes == 2
DefaultOptimizer == "L-BFGS-B"
DefaultWeight == 1

\* FairRepresentationLearner.__init__ (lines 227-247): the parameters are
\* stored as given.
Construct(n_prototypes, Ax, Ay, Az, optimizer) ==
    [n_prototypes |-> n_prototypes, Ax |-> Ax, Ay |-> Ay, Az |-> Az,
     optimizer |-> optimizer]

NoCall == [op |-> "__init__", args |-> << >>, raised |-> "none", calls |-> << >>]
\* The history: how the most recent fit call ended ("none" before the first),
\* the labels it was given if it returned; the mode of the most recent fit
\* call that returned ("never" before the first); the vector the minimizer
\* returned to the most recent with-groups fit call that returned, and the
\* number of columns of that call's X.
NoHistory ==
    [last_fit |-> "none", labels |-> {}, mode |-> "never", x |-> << >>,
     n_features |-> 0]

\* A new instance with any number of prototypes and the default weights and
\* optimizer.
Init ==
    /\ \E k \in 1..MaxPrototypes :
          self = Construct(k, DefaultWeight, DefaultWeight, DefaultWeight,
                           DefaultOptimizer)
    /\ ret = NoCall
    /\ hist = NoHistory

\* A new instance with any optimizer and the other parameters at their
\* defaults.
InitAnyOptimizer ==
    /\ \E o \in Optimizers :
          self = Construct(DefaultPrototypes, DefaultWeight, DefaultWeight,
                           DefaultWeight, o)
    /\ ret = NoCall
    /\ hist = NoHistory

\* The instance uses prototypes (the latent mapping is computed).
UsesPrototypes(s) ==
    HasAttr(s, "_fall_back_classifier") /\ s["_fall_back_classifier"] = None

\* What cdist/softmax and the fallback classifier may return for X; one
\* outcome stands for all where the call never reaches them.
QueryOutcomes(s, X) ==
    IF ~IsFitted(s) \/ ValidateDataNoReset(s, X) # "none"
       \/ ~HasAttr(s, "_fall_back_classifier")
    THEN {[M |-> << >>, P |-> << >>]}
    ELSE IF UsesPrototypes(s)
    THEN {[M |-> m, P |-> << >>] : m \in Memberships(Len(X), s["n_prototypes"])}
    ELSE {[M |-> << >>, P |-> p] : p \in Probabilities(Len(X))}

\* fit(X, y, sensitive_features=...): the instance is left as the call leaves
\* it, whether it returns or raises.
Fit ==
    \E X \in FitXs, y \in FitYs, sensitive_features \in FitSensitiveFeatures :
      \E outcome \in FitOutcomes(X, y, sensitive_features) :
      \E r \in {FitResult(self, X, y, sensitive_features, outcome)} :
        LET ok == r.raised = "none"
            mode == IF sensitive_features = None THEN "fallback" ELSE "groups"
        IN  /\ self' = r.s
            /\ ret' = [op |-> "fit",
                       args |-> [finite |-> X.finite,
                                 n_labels |-> Cardinality(Range(y)),
                                 grouped |-> sensitive_features # None],
                       raised |-> r.raised, calls |-> r.calls]
            /\ hist' = [last_fit |-> IF ok THEN "ok" ELSE "failed",
                        labels |-> IF ok THEN Range(y) ELSE {},
                        mode |-> IF ok THEN mode ELSE hist.mode,
                        x |-> IF ok /\ mode = "groups"
                              THEN ResultX(outcome.min.pick, self["n_prototypes"],
                                           X.n_features)
                              ELSE hist.x,
                        n_features |-> IF ok /\ mode = "groups"
                                       THEN X.n_features ELSE hist.n_features]

\* A read operation leaves the instance as it is; the call and the way it
\* ended are recorded.
Observe(op, r) ==
    /\ ret' = [op |-> op, args |-> << >>, raised |-> r.raised, calls |-> << >>]
    /\ UNCHANGED <<self, hist>>

Transform ==
    \E X \in QueryXs : \E o \in QueryOutcomes(self, X) :
      \E r \in {TransformResult(self, X, o.M)} : Observe("transform", r)

PredictProba ==
    \E X \in QueryXs : \E o \in QueryOutcomes(self, X) :
      \E r \in {PredictProbaResult(self, X, o.M, o.P)} : Observe("predict_proba", r)

Predict ==
    \E X \in QueryXs : \E o \in QueryOutcomes(self, X) :
      \E r \in {PredictResult(self, X, o.M, o.P)} : Observe("predict", r)

GetPrototypes == \E r \in {PrototypesProperty(self)} : Observe("prototypes_", r)

GetAlpha == \E r \in {AlphaProperty(self)} : Observe("alpha_", r)

Next == Fit \/ Transform \/ PredictProba \/ Predict \/ GetPrototypes \/ GetAlpha

Spec == Init /\ [][Next]_vars

\* Fit calls alone, on an instance constructed with any optimizer.
NextFit == Fit

SpecOptimizers == InitAnyOptimizer /\ [][NextFit]_vars

-----------------------------------------------------------------------------
(* One run of _optimize_with_sensitive_features, step by step: the initial *)
(* point and the bounds, the objective as the minimizer evaluates it, and  *)
(* the unpacking of the minimizer's result.  `ret` holds the run.          *)

\* The weights given to the constructor: Ax, and Az (which may be zero).
ReconstructionWeights == {1, 2}
FairnessWeights == {0, 1}

\* The training matrices: NSamples rows of d feature values 0.0 or 1.0.
TrainingXs(d) ==
    {[i \in 1..NSamples |-> [j \in 1..d |-> ((i + j + c) % 2) * Scale]] : c \in {0, 1}}

\* The encoded label vectors: both labels, or a single one.
TrainingYs == {[i \in 1..NSamples |-> IF i = 1 THEN 1 ELSE 0], [i \in 1..NSamples |-> 0]}

\* The memberships cdist and softmax may return for the training matrix.
TrainingMemberships(k) ==
    {[i \in 1..NSamples |-> IF i % 2 = 1 THEN a ELSE b] :
        a \in Distributions(k), b \in Distributions(k)}

\* The values log_loss may return, fixed-point.
CrossEntropies == {0, 1, 2 * Scale + 1}

InitObjective ==
    /\ \E k \in 1..MaxPrototypes, Ax \in ReconstructionWeights, Az \in FairnessWeights :
          self = Construct(k, Ax, DefaultWeight, Az, DefaultOptimizer)
    /\ ret = NoCall
    /\ hist = NoHistory

\* Lines 319-383: the groups, the sizes, the initial point and the bounds.
StartOptimization ==
    /\ ret.op = "__init__"
    /\ \E d \in 1..MaxFeatures, g \in 1..Min2(MaxGroups, NSamples),
          draw \in 0..(Scale - 1), y \in TrainingYs :
        \E X \in TrainingXs(d) :
          LET k == self["n_prototypes"]
              V0 == InitialPrototypes(draw, k, d)
              w0 == InitialPredictions(draw, k, d)
              alpha0 == InitialAlpha(d)
          IN  ret' = [op |-> "x0", X |-> X, y |-> y,
                      sensitive_features |-> GroupVector(g),
                      groups |-> UniqueInOrder(GroupVector(g)),
                      d |-> d, V0 |-> V0, w0 |-> w0, alpha0 |-> alpha0,
                      x0 |-> InitialPoint(V0, w0, alpha0),
                      bounds |-> Bounds(k, d),
                      x |-> << >>, objective |-> << >>, unpacked |-> << >>]
    /\ UNCHANGED <<self, hist>>

\* The points minimize evaluates the objective at: the initial point first,
\* then any point of the same length.
EvaluationPoints ==
    IF ret.op = "x0" THEN {ret.x0}
    ELSE {ret.x0} \cup {ResultX(p, self["n_prototypes"], ret.d) : p \in Picks}

\* minimize (lines 386-394) calls objective(x, X, y) as often as it likes
\* before it returns; an evaluation that raises ends the call (line 395).
EvaluateObjective ==
    /\ \/ ret.op = "x0"
       \/ ret.op = "objective" /\ ret.objective.raised = "none"
    /\ \E x \in EvaluationPoints,
          M \in TrainingMemberships(self["n_prototypes"]),
          cross_entropy \in CrossEntropies :
        \E o \in {Objective(self, x, ret.X, ret.y, ret.sensitive_features,
                            ret.groups, M, cross_entropy)} :
          ret' = [ret EXCEPT !.op = "objective", !.x = x, !.objective = o,
                             !.unpacked = << >>]
    /\ UNCHANGED <<self, hist>>

\* Lines 398-402: minimize has returned, after evaluations none of which
\* raised, and its result is unpacked.
UnpackResult ==
    /\ ret.op = "objective" /\ ret.objective.raised = "none"
    /\ \E p \in Picks :
        LET k == self["n_prototypes"]
            x == ResultX(p, k, ret.d)
        IN  ret' = [ret EXCEPT
                      !.op = "result", !.x = x, !.objective = << >>,
                      !.unpacked = [coef_ |-> ResultCoef(x, k, ret.d),
                                    prototypes |-> ResultPrototypes(x, k, ret.d),
                                    alpha |-> ResultAlpha(x, k, ret.d)]]
    /\ UNCHANGED <<self, hist>>

NextObjective == StartOptimization \/ EvaluateObjective \/ UnpackResult

SpecObjective == InitObjective /\ [][NextObjective]_vars


-----------------------------------------------------------------------------
(* Properties of the life cycle (specification Spec).                      *)

\* (a): the fallback classifier is set, the prototypes and the dimension
\* weights are None.
FallbackModel(s) ==
    /\ HasAttr(s, "_fall_back_classifier") /\ s["_fall_back_classifier"] # None
    /\ HasAttr(s, "_prototypes_") /\ s["_prototypes_"] = None
    /\ HasAttr(s, "_alpha_") /\ s["_alpha_"] = None

\* (b): the fallback classifier is None, the prototypes, the dimension
\* weights and the coefficients are set.
PrototypeModel(s) ==
    /\ HasAttr(s, "_fall_back_classifier") /\ s["_fall_back_classifier"] = None
    /\ HasAttr(s, "_prototypes_") /\ s["_prototypes_"] # None
    /\ HasAttr(s, "_alpha_") /\ s["_alpha_"] # None
    /\ HasAttr(s, "coef_") /\ Len(s["coef_"]) = s["n_prototypes"]

\* C1: after every fit call that returns normally, whatever fit calls came
\* before it, exactly one of (a) and (b) holds of the instance: never both,
\* never neither.
C1_ExactlyOneModel ==
    hist.last_fit = "ok" =>
        /\ FallbackModel(self) \/ PrototypeModel(self)
        /\ ~(FallbackModel(self) /\ PrototypeModel(self))
        /\ FallbackModel(self) <=> hist.mode = "fallback"

\* A fit with sensitive features has just returned and (b) holds, (a) does
\* not.
C1_Witness ==
    /\ ret.op = "fit" /\ ret.raised = "none" /\ ret.args.grouped
    /\ PrototypeModel(self) /\ ~FallbackModel(self)

\* Every read operation of the instance, on every input, fails with the
\* not-fitted condition.
AllReadsNotFitted(s) ==
    /\ PrototypesProperty(s).raised = "NotFittedError"
    /\ AlphaProperty(s).raised = "NotFittedError"
    /\ \A X \in QueryXs : \A o \in QueryOutcomes(s, X) :
          /\ TransformResult(s, X, o.M).raised = "NotFittedError"
          /\ PredictProbaResult(s, X, o.M, o.P).raised = "NotFittedError"
          /\ PredictResult(s, X, o.M, o.P).raised = "NotFittedError"

\* C2: while no fit call has returned normally (a new instance, or one whose
\* fit calls all raised), transform, predict_proba, predict, prototypes_ and
\* alpha_ fail with the not-fitted condition and nothing else.
C2_NotFittedUntilFitReturns == hist.mode = "never" => AllReadsNotFitted(self)

\* C3: in a fit with sensitive features, a minimizer that throws or returns a
\* result flagged as a failure makes fit raise the optimization-failed
\* condition; fit returns only when the minimizer reported success.
C3_FailedMinimizationRaises ==
    (ret.op = "fit" /\ ret.calls # << >> /\ ret.calls[1].fn = "minimize") =>
        /\ ret.calls[1].outcome \in {"raised", "failure"}
              => ret.raised = "RuntimeError"
        /\ ret.raised = "none" => ret.calls[1].outcome = "success"

\* C4: a fit call given a y that is not of the binary type, or an X with a
\* non-finite entry, raises the invalid-input condition and its trace holds
\* no call of the minimizer or of the fallback trainer.
C4_InvalidInputBeforeOptimizer ==
    (ret.op = "fit" /\ (~ret.args.finite \/ ret.args.n_labels > 2)) =>
        ret.raised = "ValueError" /\ ret.calls = << >>

\* A fit call with three distinct labels has raised without any collaborator
\* call.
C4_Witness ==
    /\ ret.op = "fit" /\ ret.args.finite /\ ret.args.n_labels = 3
    /\ ret.raised = "ValueError" /\ ret.calls = << >>

\* Stand-ins for the prototypes and dimension weights of an instance.
AnyRepresentation == {None, Some(<<<<0>>>>), Some(<<<<1, 1>>, <<0, 1>>>>)}

\* C5: when the most recent fit call that returned had no sensitive features,
\* transform(X) returns X itself for every X that passes validation, whatever
\* a latent mapping would be and whatever the prototypes and the dimension
\* weights hold.
C5_FallbackTransformIsIdentity ==
    hist.mode = "fallback" =>
        \A X \in QueryXs :
            ValidateDataNoReset(self, X) = "none" =>
                \A M \in {<< >>} \cup Memberships(Len(X), self["n_prototypes"]) :
                \A V \in AnyRepresentation, alpha \in AnyRepresentation :
                    /\ TransformResult(self, X, M) = Return(X)
                    /\ TransformResult(
                           SetAttr(SetAttr(self, "_prototypes_", V), "_alpha_", alpha),
                           X, M) = Return(X)

\* transform has returned in fallback mode.
C5_Witness ==
    ret.op = "transform" /\ ret.raised = "none" /\ hist.mode = "fallback"

\* The prototypes and the dimension weights in the vector x a minimizer
\* returned for k prototypes and d features.
LearnedPrototypes(x, k, d) ==
    [p \in 1..k |-> [j \in 1..d |-> x[(p - 1) * d + j]]]
LearnedAlpha(x, k, d) == [j \in 1..d |-> x[k * d + k + j]]

\* C6: when the most recent fit call that returned had no sensitive features,
\* prototypes_ and alpha_ raise AttributeError, also when an earlier call had
\* learned prototypes; when it had sensitive features, both return what that
\* call learned.
C6_AccessorsFollowTheMode ==
    /\ hist.mode = "fallback" =>
          /\ PrototypesProperty(self) = Raise("AttributeError")
          /\ AlphaProperty(self) = Raise("AttributeError")
    /\ hist.mode = "groups" =>
          /\ PrototypesProperty(self) =
                Return(LearnedPrototypes(hist.x, self["n_prototypes"], hist.n_features))
          /\ AlphaProperty(self) =
                Return(LearnedAlpha(hist.x, self["n_prototypes"], hist.n_features))

\* prototypes_ has raised AttributeError in fallback mode on an instance that
\* an earlier fit with sensitive features had given prototypes.
C6_Witness ==
    /\ ret.op = "prototypes_" /\ ret.raised = "AttributeError"
    /\ hist.mode = "fallback" /\ hist.x # << >>

\* The smaller and the larger label of a set of two.
LowLabel(L) == CHOOSE l \in L : \A m \in L : l <= m
HighLabel(L) == CHOOSE l \in L : \A m \in L : l >= m

\* predict returned, for the positive-class probabilities proba, the labels
\* of L: the larger where the probability exceeds one half, else the smaller.
LabelsOf(predicted, proba, L) ==
    /\ Len(predicted) = Len(proba)
    /\ \A i \in 1..Len(proba) :
          /\ predicted[i] \in L
          /\ predicted[i] = IF 2 * proba[i][2] > Scale * Scale
                            THEN HighLabel(L) ELSE LowLabel(L)

\* C8: after a fit that returned with the labels L = {l0, l1}, predict(X)
\* returns for every sample l1 when predict_proba's positive-class
\* probability is strictly above 0.5 and l0 otherwise, in both modes; no
\* value is an internal code.
C8_PredictReturnsOriginalLabels ==
    hist.last_fit = "ok" =>
        /\ Cardinality(hist.labels) = 2
        /\ hist.labels \cap {0, 1} = {}
        /\ \A X \in QueryXs :
              ValidateDataNoReset(self, X) = "none" =>
                  \A o \in QueryOutcomes(self, X) :
                  \A p \in {PredictProbaResult(self, X, o.M, o.P)} :
                  \A r \in {PredictResult(self, X, o.M, o.P)} :
                      /\ p.raised = "none"
                      /\ r.raised = "none"
                      /\ Len(r.value) = Len(X)
                      /\ LabelsOf(r.value, p.value, hist.labels)

\* predict has returned on an instance whose last fit had sensitive features
\* and returned.
C8_Witness ==
    /\ ret.op = "predict" /\ ret.raised = "none"
    /\ hist.last_fit = "ok" /\ hist.mode = "groups"

-----------------------------------------------------------------------------
(* Property of the optimizer parameter (specification SpecOptimizers).     *)

\* C7: in a fit with sensitive features the method handed to the minimizer
\* is the instance's optimizer parameter, whichever of the eight it is.
C7_MethodIsTheOptimizerParameter ==
    (ret.op = "fit" /\ ret.calls # << >> /\ ret.calls[1].fn = "minimize") =>
        ret.calls[1].method = self["optimizer"]


-----------------------------------------------------------------------------
(* Properties of the objective and of the flat vector (specification       *)
(* SpecObjective).                                                         *)

\* C9: with a single group the fairness error is 0 and the objective returns
\* a defined, non-negative number, Ax * reconstruction_error
\* + Ay * classification_error.
C9_SingleGroupObjectiveIsDefined ==
    (ret.op = "objective" /\ Len(ret.groups) = 1 /\ ret.objective.raised = "none") =>
        /\ ret.objective.fairness_error = <<0, 1>>
        /\ ~IsNaN(ret.objective.value)
        /\ ret.objective.value[1] >= 0
        /\ ret.objective.value =
              RAdd(RMul(Rat(self["Ax"], 1), ret.objective.reconstruction_error),
                   RMul(Rat(self["Ay"], 1), ret.objective.classification_error))

\* The vector whose entry at each position is the position: a slice of it
\* shows the positions the slice reads.
Positions(n) == [i \in 1..n |-> i]

\* The three slices of a vector for k prototypes and d features partition
\* its positions into the first k*d, the next k and the last d, in the
\* objective and in the unpacking of the result alike.
LayoutPartitions(k, d) ==
    LET n == k * d + k + d
        V == Concat(ObjectiveV(Positions(n), k, d))
        w == ObjectiveW(Positions(n), k, d)
        alpha == ObjectiveAlpha(Positions(n), k, d)
    IN  /\ OptimizerSize(k, d) = n
        /\ Len(ObjectiveV(Positions(n), k, d)) = k
        /\ \A p \in 1..k : Len(ObjectiveV(Positions(n), k, d)[p]) = d
        /\ Range(V) = 1..(k * d) /\ Len(V) = k * d
        /\ Range(w) = (k * d + 1)..(k * d + k) /\ Len(w) = k
        /\ Range(alpha) = (k * d + k + 1)..n /\ Len(alpha) = d
        /\ Range(V) \cap Range(w) = {}
        /\ Range(V) \cap Range(alpha) = {}
        /\ Range(w) \cap Range(alpha) = {}
        /\ Range(V) \cup Range(w) \cup Range(alpha) = 1..n
        /\ V \o w \o alpha = Positions(n)
        /\ ResultPrototypes(Positions(n), k, d) = ObjectiveV(Positions(n), k, d)
        /\ ResultCoef(Positions(n), k, d) = w
        /\ ResultAlpha(Positions(n), k, d) = alpha

\* The bounds of the coordinates follow the slices.
BoundsFollowLayout(bounds, k, d) ==
    /\ Len(bounds) = k * d + k + d
    /\ \A i \in 1..Len(bounds) :
          bounds[i] = IF i <= k * d THEN "unbounded"
                      ELSE IF i <= k * d + k THEN "zero_to_one"
                      ELSE "non_negative"

\* C10: the flat vector of k prototypes and d features has k*d + k + d
\* entries; the slices V, w and alpha are disjoint, cover it and have k*d, k
\* and d entries; the objective, the packing of the initial point, the bounds
\* and the unpacking of the result use the same slices, so the initial point
\* unpacks to V0, w0 and alpha0.
C10_OneLayoutEverywhere ==
    ret.op # "__init__" =>
        /\ LayoutPartitions(self["n_prototypes"], ret.d)
        /\ Len(ret.x0) = self["n_prototypes"] * ret.d + self["n_prototypes"] + ret.d
        /\ BoundsFollowLayout(ret.bounds, self["n_prototypes"], ret.d)
        /\ ResultPrototypes(ret.x0, self["n_prototypes"], ret.d) = ret.V0
        /\ ResultCoef(ret.x0, self["n_prototypes"], ret.d) = ret.w0
        /\ ResultAlpha(ret.x0, self["n_prototypes"], ret.d) = ret.alpha0
        /\ ObjectiveV(ret.x0, self["n_prototypes"], ret.d) = ret.V0
        /\ ObjectiveW(ret.x0, self["n_prototypes"], ret.d) = ret.w0
        /\ ObjectiveAlpha(ret.x0, self["n_prototypes"], ret.d) = ret.alpha0
        /\ ret.op = "objective" =>
              /\ ret.objective.raised # "AssertionError"
              /\ ret.objective.V = LearnedPrototypes(ret.x, self["n_prototypes"], ret.d)
              /\ ret.objective.alpha = LearnedAlpha(ret.x, self["n_prototypes"], ret.d)
              /\ ret.objective.w =
                    [p \in 1..self["n_prototypes"] |->
                        ret.x[self["n_prototypes"] * ret.d + p]]
        /\ ret.op = "result" =>
              /\ ret.unpacked.prototypes =
                    LearnedPrototypes(ret.x, self["n_prototypes"], ret.d)
              /\ ret.unpacked.alpha = LearnedAlpha(ret.x, self["n_prototypes"], ret.d)
              /\ ret.unpacked.coef_ =
                    [p \in 1..self["n_prototypes"] |->
                        ret.x[self["n_prototypes"] * ret.d + p]]

\* A result for two prototypes and two features has been unpacked: the
\* coefficients are its fifth and sixth entries.
C10_Witness ==
    /\ ret.op = "result" /\ self["n_prototypes"] = 2 /\ ret.d = 2
    /\ Len(ret.x) = 8
    /\ ret.unpacked.coef_ = <<ret.x[5], ret.x[6]>>


-----------------------------------------------------------------------------
(* Properties of refitting (specification Spec).                           *)

\* What fit learns and validation records: the attributes a fit call assigns.
FittedAttributes ==
    {"classes_", "_label_encoder", "n_features_in_", "_groups", "coef_",
     "_prototypes_", "_alpha_", "_fall_back_classifier", "n_iter_"}

\* The attributes of FittedAttributes an instance has, with their values.
FittedState(s) == [a \in FittedAttributes \cap DOMAIN s |-> s[a]]

\* C11: a fit call that raises on an instance on which an earlier fit call
\* returned applies nothing: the label encoder, the classes, the number of
\* input features, the groups, the coefficients, the prototypes, the
\* dimension weights and the fallback classifier are after the call what
\* they were before it.
C11_FailedFitAppliesNothing ==
    [][(hist.mode # "never" /\ ret'.op = "fit" /\ ret'.raised # "none")
          => FittedState(self') = FittedState(self)]_vars


\* Some fit call on a new instance with the parameters of s that was given
\* the labels L, sensitive features or none according to mode and, with
\* sensitive features, d columns and the minimizer's result x, returns and
\* leaves the instance as s is.
ProducedByOneFit(s, L, mode, x, d) ==
    \E X \in FitXs, y \in FitYs, sensitive_features \in FitSensitiveFeatures :
        /\ Range(y) = L
        /\ (sensitive_features = None) <=> (mode = "fallback")
        /\ mode = "groups" => X.n_features = d
        /\ \E outcome \in FitOutcomes(X, y, sensitive_features) :
              /\ mode = "groups" =>
                    ResultX(outcome.min.pick, s["n_prototypes"], d) = x
              /\ \E r \in {FitResult(Construct(s["n_prototypes"], s["Ax"], s["Ay"],
                                               s["Az"], s["optimizer"]),
                                     X, y, sensitive_features, outcome)} :
                    r.raised = "none" /\ r.s = s

\* transform and predict_proba use the fallback classifier exactly in
\* fallback mode, and otherwise the prototypes and coefficients in x.
DispatchFollows(s, mode, x, d) ==
    \A X \in QueryXs :
        ValidateDataNoReset(s, X) = "none" =>
            \A o \in QueryOutcomes(s, X) :
                IF mode = "fallback"
                THEN /\ o.M = << >>
                     /\ TransformResult(s, X, o.M) = Return(X)
                     /\ PredictProbaResult(s, X, o.M, o.P) =
                           Return([i \in 1..Len(X) |->
                                      <<Scale * Scale - o.P[i], o.P[i]>>])
                ELSE /\ o.P = << >>
                     /\ TransformResult(s, X, o.M) =
                           Return(MatMul(o.M, LearnedPrototypes(x, s["n_prototypes"], d)))
                     /\ PredictProbaResult(s, X, o.M, o.P).raised = "none"
                     /\ \A i \in 1..Len(X) :
                           PredictProbaResult(s, X, o.M, o.P).value[i][2] =
                               SumSeq([p \in 1..s["n_prototypes"] |->
                                          o.M[i][p] * x[s["n_prototypes"] * d + p]])

\* C12: after a fit call that returned, whatever fit calls returned before
\* it, the instance is as that call alone would have left a new instance:
\* transform and predict_proba use the fallback classifier if and only if
\* the call had no sensitive features, and the classes, the label encoder,
\* the coefficients, n_iter_, the prototypes, the dimension weights and the
\* fallback classifier are the ones that call produced.
C12_LastFitAloneDecides ==
    hist.last_fit = "ok" =>
        /\ ProducedByOneFit(self, hist.labels, hist.mode, hist.x, hist.n_features)
        /\ DispatchFollows(self, hist.mode, hist.x, hist.n_features)

\* transform has returned from the fallback classifier's branch on an
\* instance whose earlier fit with sensitive features had learned prototypes.
C12_Witness ==
    /\ ret.op = "transform" /\ ret.raised = "none"
    /\ hist.last_fit = "ok" /\ hist.mode = "fallback" /\ hist.x # << >>
    /\ FallbackModel(self)

=============================================================================
